---- MODULE Spec2Model ----
(***************************************************************************)
(* Paste lifecycle of viralburst/pastebin: KVStorage over a key-value      *)
(* backend without atomic insert-if-absent or read-and-delete, and the     *)
(* request handlers (view, preview, download) that call it.                *)
(*                                                                         *)
(* Every backend call (kv.get, kv.put, kv.delete) is one atomic step; the  *)
(* code that runs after the await up to the next backend call belongs to   *)
(* the same step.  Requests interleave between steps.  The clock advances  *)
(* in ticks of 1/TicksPerSec second between steps.                         *)
(*                                                                         *)
(* Optional values (expiresAt?, PasteData | null) are sequences of length  *)
(* at most one: <<>> is undefined/null, <<x>> is x.                        *)
(***************************************************************************)
EXTENDS Integers, Sequences, FiniteSets, TLC

\* ---------------------------------------------------------------- bounds
MaxTime == 3
MaxPastes == 2
TicksPerSec == 2
MaxMatches == 2
MaxCounter == 150
MaxCalls == 2

Procs == {"p1", "p2"}
Ids == {"A", "B"}
Titles == {"t1"}
Languages == {"js"}
\* a content string: its text, its length, and whether "..." was appended
Contents == {[txt |-> "c1", len |-> 3, ell |-> FALSE],
             [txt |-> "c2", len |-> 501, ell |-> FALSE]}
\* the expiresAt timestamps given to createPaste, in ticks (1.5 s after the
\* start: in the future, less than a second away, or past, as the clock runs)
ExpiryTimes == {3}

\* ------------------------------------------------------ program constants
maxAttempts == 10
previewLength == 500

\* --------------------------------------------------------------- helpers
Some(x) == <<x>>
None == <<>>

Max(a, b) == IF a >= b THEN a ELSE b
Min(a, b) == IF a <= b THEN a ELSE b

PasteFields ==
  {"sn", "id", "title", "content", "language", "expiresAt",
   "consumed", "size", "oneTimeView"}

\* JSON.stringify(paste): a key whose value is undefined is left out.
Stringify(paste) ==
  [k \in {f \in PasteFields : f # "expiresAt" \/ paste.expiresAt # None} |->
     IF k = "expiresAt" THEN paste.expiresAt[1] ELSE paste[k]]

\* JSON.parse(value) read as PasteData: a missing key reads as undefined.
Parse(json) ==
  [k \in PasteFields |->
     IF k = "expiresAt"
       THEN (IF "expiresAt" \in DOMAIN json THEN Some(json.expiresAt) ELSE None)
       ELSE (IF k \in DOMAIN json THEN json[k] ELSE FALSE)]

IsExpiredNever(paste, t) == FALSE

\* paste.expiresAt && new Date(paste.expiresAt) <= new Date()
IsExpired(paste, t) == paste.expiresAt # None /\ paste.expiresAt[1] <= t

\* handleDownload: paste.expiresAt && new Date(paste.expiresAt) < new Date()
IsExpiredStrict(paste, t) == paste.expiresAt # None /\ paste.expiresAt[1] < t

\* Math.max(0, Math.floor((expMs - now) / 1000))
TtlSec(expMs, t) == Max(0, (expMs - t) \div TicksPerSec)

\* handlePreview: first previewLength characters, "..." appended when cut
PreviewOf(content) ==
  IF content.len > previewLength
    THEN [txt |-> content.txt, len |-> previewLength, ell |-> TRUE]
    ELSE content

\* ----------------------------------------------------------------- state
VARIABLES
  now,        \* the clock, in ticks
  kv,         \* the KV namespace: id -> optional [value, ttlAt]
  proc,       \* per caller: the request in flight, its position and locals
  out,        \* the result of the request that completed in the last step
  nextSn,     \* history: serial number of the next createPaste call
  given,      \* history: sn -> the CreatePasteInput of that call
  at,         \* history: sn -> the id its record was written under
  fate,       \* history: sn -> what happened to the record
  delivered,  \* history: one-time sn -> how often consumePaste/view returned it
  leaked,     \* history: one-time sn -> preview/download returned it in full
  hits,       \* history: action -> the requests the client has sent this minute
  mock,       \* the Map of a MockStorage given the same calls: sn -> optional paste
  counters,   \* ANALYTICS_KV: key -> optional number stored under it
  calling,    \* request -> the KVAnalytics track call it is in, and its stage
  incr,       \* request -> key -> the phase of its incrementCounter(key), and
              \*   the value it is about to put
  tracked     \* history: kind -> the track calls of that kind that have completed

stats == <<counters, calling, incr, tracked>>
vars == <<now, kv, proc, out, nextSn, given, at, fate, delivered, leaked, hits, mock,
          counters, calling, incr, tracked>>
hist == <<delivered, leaked, hits, mock, stats>>

Sns == 1..MaxPastes

\* what a request follows: the request that completed right before it was
\* called; aged: the clock has advanced since
NoFollow == [kind |-> "none", sn |-> 0, aged |-> FALSE]

\* a result: what the caller got (status, body, http) and, as history, what
\* held when the request completed; core is the outcome of the storage
\* operations, before the handler called analytics
NoOut ==
  [op |-> "none", id |-> "", status |-> "none", body |-> None, http |-> 0,
   dead |-> {}, spentNow |-> FALSE, spentEver |-> FALSE,
   sawExp |-> FALSE, readLive |-> 0, target |-> 0, checks |-> 0, puts |-> 0,
   overwrote |-> FALSE, freeAtCheck |-> FALSE, follows |-> NoFollow,
   req |-> None, ttl |-> None, sn |-> 0, raw |-> None, api |-> TRUE,
   track |-> "ok", core |-> "none", warnings |-> <<>>, createdAt |-> None,
   twin |-> "none"]

Idle ==
  [op |-> "idle", pc |-> "idle", id |-> "", data |-> None, paste |-> None,
   ttl |-> None, att |-> 0, checks |-> 0, puts |-> 0, sn |-> 0, sawExp |-> FALSE,
   readLive |-> 0, target |-> 0, freeAtCheck |-> FALSE, dead |-> {},
   follows |-> NoFollow, req |-> None, raw |-> None, api |-> TRUE,
   track |-> "ok", warnings |-> <<>>, createdAt |-> None, twin |-> "none"]

\* the concurrent requests that call KVAnalytics, and the two track calls
Trackers == {"r1", "r2"}
Kinds == {"viewed", "created"}

\* the counters incrementCounter is called on, for one day, one hour and
\* one language, and the key of addToSample
CounterKeys(kind) ==
  IF kind = "created"
    THEN {"daily:shares", "daily:total", "language", "total:shares", "hourly:shares"}
    ELSE {"daily:views", "daily:total", "total:views", "hourly:views"}
StatKeys == CounterKeys("created") \cup CounterKeys("viewed") \cup {"sizes"}

\* no track call; no incrementCounter call
NoCall == <<"none", "idle">>
NoIncrements == [k \in StatKeys |-> <<"off", 0>>]

Init ==
  /\ now = 0
  /\ kv = [i \in Ids |-> None]
  /\ proc = [p \in Procs |-> Idle]
  /\ out = NoOut
  /\ nextSn = 1
  /\ given = [s \in Sns |-> None]
  /\ at = [s \in Sns |-> ""]
  /\ fate = [s \in Sns |-> "none"]
  /\ delivered = [s \in Sns |-> 0]
  /\ leaked = [s \in Sns |-> FALSE]
  /\ hits = [a \in {"create", "view"} |-> 0]
  /\ mock = [s \in Sns |-> None]
  /\ counters = [k \in StatKeys |-> None]
  /\ calling = [t \in Trackers |-> NoCall]
  /\ incr = [t \in Trackers |-> NoIncrements]
  /\ tracked = [kind \in Kinds |-> 0]

\* the record stored under id i, parsed
StoredPaste(i) == Parse(kv[i][1].value)

\* history: the expiresAt given for paste s is at or before t
Passed(s, t) == given[s][1].expiresAt # None /\ given[s][1].expiresAt[1] <= t

\* history: a paste is terminated once its record was removed or its
\* expiresAt has passed
Dead(s) ==
  \/ fate[s] \in {"consumed", "deleted", "lazy", "swept", "overwritten", "displaced"}
  \/ (fate[s] # "none" /\ Passed(s, now))

\* history: the record under i is removed for the given cause
Removed(i, cause) ==
  IF kv[i] = None THEN fate ELSE [fate EXCEPT ![StoredPaste(i).sn] = cause]

\* history: a one-time paste written under i was consumed
SpentEver(i) ==
  \E s \in Sns : at[s] = i /\ fate[s] = "consumed" /\ given[s][1].oneTimeView

\* history: the paste written last under i is a consumed one-time paste
SpentNow(i) ==
  \E s \in Sns : /\ at[s] = i /\ fate[s] = "consumed" /\ given[s][1].oneTimeView
                 /\ \A s2 \in Sns : at[s2] = i => s2 <= s

\* ------------------------------------------------- leaving and returning
Goto(p, pc, paste) ==
  /\ proc' = [proc EXCEPT ![p].pc = pc, ![p].paste = paste]
  /\ out' = NoOut
  /\ UNCHANGED hist

CreateStatusAlwaysOk(status) == 200

\* CreateHandler.handle: the response for what createPaste did
CreateStatus(status) == IF status = "created" THEN 200 ELSE 500

\* the analytics calls of the handlers (trackPasteCreated after a create,
\* trackPasteViewed after a view, trackError after a delete):
\* try { await this.analytics.track...() } catch { console.warn(...) }
\* track is what the analytics call does; the value is what the handler sees
TryTrackRethrows(track) == track

TryTrack(track) == "ok"

\* the handler paths that call analytics before they build the response
Tracks(o, status) ==
  \/ o = "create" /\ status = "created"
  \/ o \in {"view", "hdelete"} /\ status = "200"

\* the outcome of the request once analytics has been called: an exception
\* leaving the try block reaches the catch of the handler
AfterTracking(pr, status) ==
  IF Tracks(pr.op, status) /\ TryTrack(pr.track) = "throws"
    THEN (IF pr.op = "create" THEN "CREATE_HANDLER_FAILED" ELSE "500")
    ELSE status

\* the HTTP status of ResponseUtils.error(message, status), notFound and
\* success, and of new Response(null, { status })
Code(status) ==
  CASE status = "200" -> 200 [] status = "404" -> 404
    [] status = "410" -> 410 [] status = "500" -> 500
    [] status = "429" -> 429

\* the HTTP status of the response: ViewHandler.handle answers a request
\* without Accept: application/json with ResponseUtils.html(page), whose
\* status defaults to 200
HttpStatus(pr, status) ==
  IF status = "429" THEN Code(status)
  ELSE IF pr.op = "create" THEN CreateStatus(status)
  ELSE IF pr.op = "hcreate" THEN 400
  ELSE IF pr.op = "view" THEN (IF pr.api THEN Code(status) ELSE 200)
  ELSE IF pr.op \in {"head", "preview", "hdelete"} THEN Code(status)
  ELSE 0

\* the request of p ends with the given status and body; pr is its record
\* as this last step leaves it
FinishWith(p, pr, status, body) ==
  LET sn == IF body = None THEN 0 ELSE body[1].sn
      once == body # None /\ body[1].oneTimeView
      full == body # None /\ body[1].content = given[sn][1].content
  IN
  /\ proc' = [proc EXCEPT ![p] = Idle]
  /\ out' = [op |-> pr.op, id |-> pr.id, status |-> AfterTracking(pr, status),
             body |-> IF AfterTracking(pr, status) = status THEN body ELSE None,
             http |-> HttpStatus(pr, AfterTracking(pr, status)),
             dead |-> pr.dead,
             spentNow |-> SpentNow(pr.id),
             spentEver |-> SpentEver(pr.id),
             sawExp |-> pr.sawExp,
             readLive |-> pr.readLive,
             target |-> pr.target,
             checks |-> pr.checks,
             puts |-> pr.puts,
             overwrote |-> pr.op = "create" /\ status = "created" /\ kv[pr.id] # None,
             freeAtCheck |-> pr.freeAtCheck,
             follows |-> pr.follows,
             req |-> pr.req,
             ttl |-> pr.ttl,
             sn |-> pr.sn,
             raw |-> pr.raw,
             api |-> pr.api,
             track |-> pr.track,
             core |-> status,
             warnings |-> IF AfterTracking(pr, status) = "created"
                            THEN pr.warnings ELSE <<>>,
             createdAt |-> pr.createdAt,
             twin |-> pr.twin]
  /\ delivered' = IF once /\ pr.op \in {"consume", "view"}
                    THEN [delivered EXCEPT ![sn] = Min(2, @ + 1)] ELSE delivered
  /\ leaked' = IF once /\ full /\ pr.op \in {"preview", "download"}
                 THEN [leaked EXCEPT ![sn] = TRUE] ELSE leaked
  /\ hits' = hits
  /\ mock' = mock
  /\ UNCHANGED stats

Finish(p, status, body) == FinishWith(p, proc[p], status, body)

\* ----------------------------------------------------- what callers do next
\* the value getPaste returns reaches its caller
ReturnFromGetPaste(p, value) ==
  CASE proc[p].op = "get" ->
         Finish(p, IF value = None THEN "null" ELSE "paste", value)
    [] proc[p].op = "view" ->
         IF value = None THEN Finish(p, "404", None)
         ELSE /\ proc' = [proc EXCEPT ![p].pc = "chk", ![p].paste = value,
                                      ![p].target = value[1].sn]
              /\ out' = NoOut
              /\ UNCHANGED hist
    [] proc[p].op \in {"preview", "head"} ->
         IF value = None \/ value[1].consumed
           THEN Finish(p, "404", None) ELSE Goto(p, "chk", value)
    [] proc[p].op = "download" ->
         IF value = None THEN Finish(p, "404", None) ELSE Goto(p, "chk", value)
    [] proc[p].op = "hdelete" ->
         IF value = None THEN Finish(p, "404", None) ELSE Goto(p, "del", value)

ReturnFromConsumePasteLost(p, value) ==
  Finish(p, IF proc[p].op = "view" THEN "404" ELSE "null", None)

\* the value consumePaste returns reaches its caller
ReturnFromConsumePaste(p, value) ==
  CASE proc[p].op = "consume" ->
         Finish(p, IF value = None THEN "null" ELSE "paste", value)
    [] proc[p].op = "view" ->
         Finish(p, IF value = None THEN "404" ELSE "200", value)

\* deletePaste returns to its caller
ReturnFromDeletePaste(p) ==
  CASE proc[p].op = "delete" -> Finish(p, "void", None)
    [] proc[p].op \in {"view", "preview", "head"} -> Finish(p, "410", None)
    [] proc[p].op = "hdelete" -> Finish(p, "200", None)

\* ------------------------------------------------------------ the requests
FirstPc(o) ==
  CASE o = "consume" -> "cget"
    [] o = "delete" -> "del"
    [] o \in {"get", "view", "preview", "download", "hdelete", "head"} -> "get"

\* history: what a request on id i follows when it is called right after
\* another request on i completed: a createPaste that stored a paste, a
\* getPaste/consumePaste that found the record expired, or a deletePaste
Follows(i) ==
  IF out.id = i /\ out.op = "create" /\ out.status = "created"
    THEN [kind |-> "created", sn |-> out.body[1].sn, aged |-> FALSE]
  ELSE IF out.id = i /\ out.sawExp
    THEN [kind |-> "expired", sn |-> 0, aged |-> FALSE]
  ELSE IF out.id = i /\ out.op = "delete"
    THEN [kind |-> "deleted", sn |-> 0, aged |-> FALSE]
  ELSE NoFollow

\* a caller invokes getPaste, consumePaste, deletePaste or a handler on id i;
\* watch says which history the request carries along
Call(p, o, i, watch) ==
  /\ proc[p].pc = "idle"
  /\ proc' = [proc EXCEPT ![p] =
       [Idle EXCEPT !.op = o, !.pc = FirstPc(o), !.id = i,
          !.dead = IF "dead" \in watch THEN {s \in Sns : Dead(s)} ELSE {},
          !.follows = IF "follows" \in watch THEN Follows(i) ELSE NoFollow]]
  /\ out' = NoOut
  /\ UNCHANGED <<now, kv, nextSn, given, at, fate, hist>>

\* a caller invokes createPaste(data)
CallCreate(p, data) ==
  /\ proc[p].pc = "idle"
  /\ nextSn <= MaxPastes
  /\ proc' = [proc EXCEPT ![p] = [Idle EXCEPT !.op = "create", !.pc = "gen",
                                              !.data = Some(data), !.sn = nextSn]]
  /\ out' = NoOut
  /\ nextSn' = nextSn + 1
  /\ given' = [given EXCEPT ![nextSn] = Some(data)]
  /\ UNCHANGED <<now, kv, at, fate, hist>>

\* the CreatePasteInput values of the model, as CreateHandler.handle builds
\* them: size is the length of the content, consumed is not passed
InputsWith(contents) ==
  {[d EXCEPT !.size = d.content.len] :
     d \in [title : Titles, content : contents, language : Languages,
            expiresAt : {None} \cup {Some(t) : t \in ExpiryTimes},
            size : {0}, consumed : {None}, oneTimeView : BOOLEAN]}

\* ---------------------------------------------------------------- KVStorage
NewPasteSwapped(data, id, sn) ==
  [sn |-> sn, id |-> id, title |-> data.language, content |-> data.content,
   language |-> data.title, expiresAt |-> data.expiresAt,
   consumed |-> IF data.consumed = None THEN FALSE ELSE data.consumed[1],
   size |-> data.size, oneTimeView |-> data.oneTimeView]

NewPasteSpent(data, id, sn) ==
  [sn |-> sn, id |-> id, title |-> data.title, content |-> data.content,
   language |-> data.language, expiresAt |-> data.expiresAt,
   consumed |-> TRUE,
   size |-> data.size, oneTimeView |-> data.oneTimeView]

\* createPaste, the PasteData it builds (sn is history, not a field;
\* createdAt, which no operation reads, is kept with the request and not
\* in the record)
NewPaste(data, id, sn) ==
  [sn |-> sn, id |-> id, title |-> data.title, content |-> data.content,
   language |-> data.language, expiresAt |-> data.expiresAt,
   consumed |-> IF data.consumed = None THEN FALSE ELSE data.consumed[1],
   size |-> data.size, oneTimeView |-> data.oneTimeView]

IdIsFreeUnchecked(c) == TRUE

\* generateId: const existing = await this.kv.get(id); if (!existing)
IdIsFree(c) == kv[c] = None

LoopAgainOneMore(attempts) == attempts <= maxAttempts

\* generateId: while (attempts < maxAttempts)
LoopAgain(attempts) == attempts < maxAttempts

InvalidTtlNever(ttlSec) == FALSE

\* createPaste: if (ttlSec <= 0), for a paste with an expiresAt
InvalidTtl(ttlSec) == ttlSec # None /\ ttlSec[1] <= 0

\* generateId: one turn of the loop (a random candidate from ids, kv.get on it); on a
\* free candidate createPaste goes on to build the paste and compute the TTL
GenerateId(p, ids) ==
  /\ proc[p].pc = "gen"
  /\ \E c \in ids :
       LET pr == proc[p]
           paste == NewPaste(pr.data[1], c, pr.sn)
           ttlSec == IF paste.expiresAt = None THEN None
                     ELSE Some(TtlSec(paste.expiresAt[1], now))
       IN IF IdIsFree(c)
            THEN IF InvalidTtl(ttlSec)
                   THEN /\ FinishWith(p, [pr EXCEPT !.id = c, !.checks = @ + 1,
                                                    !.ttl = ttlSec],
                                      "INVALID_EXPIRY", None)
                        /\ UNCHANGED fate
                   ELSE /\ fate' = [fate EXCEPT ![pr.sn] = "unwritten"]
                        /\ proc' = [proc EXCEPT ![p].pc = "put", ![p].id = c,
                                       ![p].checks = @ + 1,
                                       ![p].freeAtCheck = (kv[c] = None),
                                       ![p].paste = Some(paste), ![p].ttl = ttlSec,
                                       ![p].createdAt = Some(now)]
                        /\ out' = NoOut
                        /\ UNCHANGED hist
            ELSE IF LoopAgain(pr.att + 1)
                   THEN /\ proc' = [proc EXCEPT ![p].att = @ + 1, ![p].checks = @ + 1]
                        /\ out' = NoOut
                        /\ UNCHANGED <<fate, hist>>
                   ELSE /\ FinishWith(p, [pr EXCEPT !.att = @ + 1, !.checks = @ + 1],
                                      "ID_GENERATION_FAILED", None)
                        /\ UNCHANGED fate
  /\ UNCHANGED <<now, kv, nextSn, given, at>>

\* createPaste: kv.put(id, JSON.stringify(paste), { expirationTtl: ttlSec })
CreatePastePut(p) ==
  /\ proc[p].pc = "put"
  /\ LET pr == proc[p]
         entry == [value |-> Stringify(pr.paste[1]),
                   ttlAt |-> IF pr.ttl = None THEN None
                             ELSE Some(now + pr.ttl[1] * TicksPerSec)]
     IN /\ kv' = [kv EXCEPT ![pr.id] = Some(entry)]
        /\ fate' = [Removed(pr.id, "overwritten") EXCEPT ![pr.sn] = "stored"]
        /\ at' = [at EXCEPT ![pr.sn] = pr.id]
        /\ FinishWith(p, [pr EXCEPT !.puts = @ + 1], "created", pr.paste)
  /\ UNCHANGED <<now, nextSn, given>>

\* getPaste: kv.get(id), parse, the expiry check
GetPasteRead(p) ==
  /\ proc[p].pc = "get"
  /\ LET i == proc[p].id IN
       IF kv[i] = None
         THEN ReturnFromGetPaste(p, None)
         ELSE IF IsExpired(StoredPaste(i), now)
                THEN /\ proc' = [proc EXCEPT ![p].pc = "getdel", ![p].sawExp = TRUE]
                     /\ out' = NoOut
                     /\ UNCHANGED hist
                ELSE ReturnFromGetPaste(p, Some(StoredPaste(i)))
  /\ UNCHANGED <<now, kv, nextSn, given, at, fate>>

GetPasteDeleteSkips(p) ==
  /\ proc[p].pc = "getdel"
  /\ ReturnFromGetPaste(p, None)
  /\ UNCHANGED <<now, kv, nextSn, given, at, fate>>

\* getPaste: kv.delete(id) of the expired record, return null
GetPasteDelete(p) ==
  /\ proc[p].pc = "getdel"
  /\ kv' = [kv EXCEPT ![proc[p].id] = None]
  /\ fate' = Removed(proc[p].id, "lazy")
  /\ ReturnFromGetPaste(p, None)
  /\ UNCHANGED <<now, nextSn, given, at>>

\* consumePaste: kv.get(id), parse, the consumed and expiry checks
ConsumePasteRead(p) ==
  /\ proc[p].pc = "cget"
  /\ LET i == proc[p].id IN
       IF kv[i] = None \/ StoredPaste(i).consumed
         THEN ReturnFromConsumePaste(p, None)
         ELSE IF IsExpired(StoredPaste(i), now)
                THEN /\ proc' = [proc EXCEPT ![p].pc = "cdelx", ![p].sawExp = TRUE]
                     /\ out' = NoOut
                     /\ UNCHANGED hist
                ELSE /\ proc' = [proc EXCEPT ![p].pc = "cdel",
                                    ![p].paste = Some(StoredPaste(i)),
                                    ![p].readLive = StoredPaste(i).sn]
                     /\ out' = NoOut
                     /\ UNCHANGED hist
  /\ UNCHANGED <<now, kv, nextSn, given, at, fate>>

\* consumePaste: kv.delete(id) of the expired record, return null
ConsumePasteDeleteExpired(p) ==
  /\ proc[p].pc = "cdelx"
  /\ kv' = [kv EXCEPT ![proc[p].id] = None]
  /\ fate' = Removed(proc[p].id, "lazy")
  /\ ReturnFromConsumePaste(p, None)
  /\ UNCHANGED <<now, nextSn, given, at>>

\* history: consumePaste removes the record it has read (consumed), or the
\* record a createPaste has put in its place since (displaced)
ConsumeCause(p) ==
  IF kv[proc[p].id] # None /\ StoredPaste(proc[p].id).sn = proc[p].readLive
    THEN "consumed" ELSE "displaced"

ConsumePasteDeleteIfPresent(p) ==
  /\ proc[p].pc = "cdel"
  /\ kv' = [kv EXCEPT ![proc[p].id] = None]
  /\ fate' = Removed(proc[p].id, ConsumeCause(p))
  /\ ReturnFromConsumePaste(p, IF kv[proc[p].id] = None THEN None ELSE proc[p].paste)
  /\ UNCHANGED <<now, nextSn, given, at>>

ConsumePasteKeeps(p) ==
  /\ proc[p].pc = "cdel"
  /\ fate' = Removed(proc[p].id, ConsumeCause(p))
  /\ ReturnFromConsumePaste(p, proc[p].paste)
  /\ UNCHANGED <<now, kv, nextSn, given, at>>

ConsumePasteMarks(p) ==
  /\ proc[p].pc = "cdel"
  /\ kv' = [kv EXCEPT ![proc[p].id] =
             IF @ = None THEN None
             ELSE Some([@[1] EXCEPT !.value =
                          Stringify([StoredPaste(proc[p].id) EXCEPT !.consumed = TRUE])])]
  /\ fate' = Removed(proc[p].id, ConsumeCause(p))
  /\ ReturnFromConsumePaste(p, proc[p].paste)
  /\ UNCHANGED <<now, nextSn, given, at>>

\* consumePaste: kv.delete(id), return the paste read before
ConsumePasteDelete(p) ==
  /\ proc[p].pc = "cdel"
  /\ kv' = [kv EXCEPT ![proc[p].id] = None]
  /\ fate' = Removed(proc[p].id, ConsumeCause(p))
  /\ ReturnFromConsumePaste(p, proc[p].paste)
  /\ UNCHANGED <<now, nextSn, given, at>>

DeletePasteSkips(p) ==
  /\ proc[p].pc = "del"
  /\ ReturnFromDeletePaste(p)
  /\ UNCHANGED <<now, kv, nextSn, given, at, fate>>

DeletePasteClears(p) ==
  /\ proc[p].pc = "del"
  /\ kv' = [i \in Ids |-> None]
  /\ fate' = [s \in Sns |->
               IF \E i \in Ids : kv[i] # None /\ StoredPaste(i).sn = s
                 THEN "deleted" ELSE fate[s]]
  /\ ReturnFromDeletePaste(p)
  /\ UNCHANGED <<now, nextSn, given, at>>

\* deletePaste: kv.delete(id); also the handlers' clean-up of an expired paste
\* and the delete of ViewHandler.handleDelete
DeletePaste(p) ==
  /\ proc[p].pc = "del"
  /\ kv' = [kv EXCEPT ![proc[p].id] = None]
  /\ fate' = Removed(proc[p].id, "deleted")
  /\ ReturnFromDeletePaste(p)
  /\ UNCHANGED <<now, nextSn, given, at>>

\* ------------------------------------------------------------- the handlers
\* ViewHandler.handle: if (paste.oneTimeView) consumePaste else the paste read
ViewConsumes(paste) == paste.oneTimeView

\* ViewHandler.handle after getPaste returned a paste: expired, consumed,
\* one-time or multi-view
ViewCheck(p) ==
  /\ proc[p].pc = "chk" /\ proc[p].op = "view"
  /\ LET paste == proc[p].paste[1] IN
       IF IsExpired(paste, now) THEN Goto(p, "del", None)
       ELSE IF paste.consumed THEN Finish(p, "404", None)
       ELSE IF ViewConsumes(paste) THEN Goto(p, "cget", None)
       ELSE Finish(p, "200", Some(paste))
  /\ UNCHANGED <<now, kv, nextSn, given, at, fate>>

PreviewCheckConsumes(p) ==
  /\ proc[p].pc = "chk" /\ proc[p].op = "preview"
  /\ Goto(p, "del", None)
  /\ UNCHANGED <<now, kv, nextSn, given, at, fate>>

\* ViewHandler.handlePreview after getPaste returned an unconsumed paste
PreviewCheck(p) ==
  /\ proc[p].pc = "chk" /\ proc[p].op = "preview"
  /\ LET paste == proc[p].paste[1] IN
       IF IsExpired(paste, now) THEN Goto(p, "del", None)
       ELSE Finish(p, "200", Some([paste EXCEPT !.content = PreviewOf(@)]))
  /\ UNCHANGED <<now, kv, nextSn, given, at, fate>>

\* handleDownload after getPaste returned a paste
DownloadCheck(p) ==
  /\ proc[p].pc = "chk" /\ proc[p].op = "download"
  /\ LET paste == proc[p].paste[1] IN
       IF IsExpiredStrict(paste, now) THEN Finish(p, "404", None)
       ELSE Finish(p, "200", Some(paste))
  /\ UNCHANGED <<now, kv, nextSn, given, at, fate>>

\* ViewHandler.handleHead after getPaste returned an unconsumed paste: the
\* metadata goes into headers, the response has no body
HeadCheck(p) ==
  /\ proc[p].pc = "chk" /\ proc[p].op = "head"
  /\ LET paste == proc[p].paste[1] IN
       IF IsExpired(paste, now) THEN Goto(p, "del", None)
       ELSE Finish(p, "200", None)
  /\ UNCHANGED <<now, kv, nextSn, given, at, fate>>

\* ------------------------------------------------ the id taken from the path
\* generateId(length = 12): the number of characters of a generated id
IdLength == 12
\* sanitizePasteId: the bounds on the length of the sanitized id
MinIdLength == 8
MaxIdLength == 20

\* the id as it stands in the path: txt names its alphanumeric characters in
\* order, len is their number, junk the number of its other characters
RawIds ==
  {[txt |-> "A", len |-> IdLength, junk |-> 0],
   [txt |-> "A", len |-> IdLength, junk |-> 2],
   [txt |-> "short", len |-> MinIdLength - 1, junk |-> 0],
   [txt |-> "short", len |-> MinIdLength - 1, junk |-> 3],
   [txt |-> "long", len |-> MaxIdLength + 5, junk |-> 0]}

\* pasteId.replace(/[^a-zA-Z0-9]/g, '')
StripNonAlnum(raw) == [raw EXCEPT !.junk = 0]

\* s.slice(0, n)
Slice(raw, n) == IF raw.len > n THEN [raw EXCEPT !.txt = "long-cut", !.len = n] ELSE raw

\* ViewHandler.sanitizePasteId: the key to look up, None for undefined
SanitizePasteId(raw) ==
  LET sanitized == Slice(StripNonAlnum(raw), MaxIdLength) IN
    IF raw.len + raw.junk = 0 THEN None
    ELSE IF sanitized.len < MinIdLength \/ sanitized.len > MaxIdLength THEN None
    ELSE Some(sanitized.txt)

\* a request for view ("view"), HEAD ("head"), preview or delete ("hdelete")
\* arrives with the id raw in its path; api: it carries Accept:
\* application/json; track: what the analytics backend does during the
\* request.  An id that sanitizePasteId rejects is answered at once.
Enter(p, o, raw, api, track) ==
  /\ proc[p].pc = "idle"
  /\ LET pr == [Idle EXCEPT !.op = o, !.raw = Some(raw), !.api = api, !.track = track]
         key == SanitizePasteId(raw)
     IN IF key = None
          THEN FinishWith(p, pr, "404", None)
          ELSE /\ proc' = [proc EXCEPT ![p] =
                    [pr EXCEPT !.id = key[1],
                               !.pc = IF key[1] \in Ids THEN FirstPc(o) ELSE "miss"]]
               /\ out' = NoOut
               /\ UNCHANGED hist
  /\ UNCHANGED <<now, kv, nextSn, given, at, fate>>

\* getPaste on a key under which the store never held a record: kv.get
\* returns null
GetPasteMiss(p) ==
  /\ proc[p].pc = "miss"
  /\ ReturnFromGetPaste(p, None)
  /\ UNCHANGED <<now, kv, nextSn, given, at, fate>>

\* CreateHandler.handle calls createPaste(data); track as for Enter
EnterCreate(p, data, track) ==
  /\ proc[p].pc = "idle"
  /\ nextSn <= MaxPastes
  /\ proc' = [proc EXCEPT ![p] = [Idle EXCEPT !.op = "create", !.pc = "gen",
                                              !.data = Some(data), !.sn = nextSn,
                                              !.track = track]]
  /\ out' = NoOut
  /\ nextSn' = nextSn + 1
  /\ given' = [given EXCEPT ![nextSn] = Some(data)]
  /\ UNCHANGED <<now, kv, at, fate, hist>>

\* ------------------------------------------------------------ MockStorage
\* MockStorage.createPaste: the paste it stores
MockPaste(data, sn) ==
  [sn |-> sn, title |-> data.title, content |-> data.content,
   language |-> data.language, expiresAt |-> data.expiresAt, consumed |-> FALSE,
   size |-> data.size, oneTimeView |-> data.oneTimeView]

\* MockStorage.getPaste(id): this.pastes.get(id) || null
MockGetPaste(s) == mock[s]

\* MockStorage.consumePaste(id): the value returned
MockConsumePaste(s) == IF mock[s] = None \/ mock[s][1].consumed THEN None ELSE mock[s]

\* the id the KVStorage generates for the paste with serial number s: every
\* paste gets an id of its own, as every MockStorage paste does
SnId(s) == IF s = 2 THEN "B" ELSE "A"

\* generateId of the KVStorage draws that id
GenerateOwnId(p) == \E s \in Sns : proc[p].sn = s /\ GenerateId(p, {SnId(s)})

\* createPaste(data) is called on a KVStorage and on a MockStorage: the
\* MockStorage stores the paste at once; twin is what it returns
DriveCreate(p, data) ==
  /\ proc[p].pc = "idle"
  /\ nextSn <= MaxPastes
  /\ proc' = [proc EXCEPT ![p] = [Idle EXCEPT !.op = "create", !.pc = "gen",
                                              !.data = Some(data), !.sn = nextSn,
                                              !.twin = "present"]]
  /\ mock' = [mock EXCEPT ![nextSn] = Some(MockPaste(data, nextSn))]
  /\ out' = NoOut
  /\ nextSn' = nextSn + 1
  /\ given' = [given EXCEPT ![nextSn] = Some(data)]
  /\ UNCHANGED <<now, kv, at, fate, delivered, leaked, hits, stats>>

\* getPaste, consumePaste or deletePaste is called on both storages for the
\* paste of the s-th createPaste call
Drive(p, o, s) ==
  /\ proc[p].pc = "idle"
  /\ given[s] # None
  /\ proc' = [proc EXCEPT ![p] =
       [Idle EXCEPT !.op = o, !.pc = FirstPc(o), !.id = SnId(s),
          !.twin = CASE o = "get" ->
                          IF MockGetPaste(s) = None THEN "absent" ELSE "present"
                     [] o = "consume" ->
                          IF MockConsumePaste(s) = None THEN "absent" ELSE "present"
                     [] o = "delete" -> "void"]]
  /\ mock' = IF o = "delete" \/ (o = "consume" /\ MockConsumePaste(s) # None)
               THEN [mock EXCEPT ![s] = None] ELSE mock
  /\ out' = NoOut
  /\ UNCHANGED <<now, kv, nextSn, given, at, fate, delivered, leaked, hits, stats>>

\* ------------------------------------------------------ backend failures
\* a backend call (kv.get, kv.put, kv.delete) throws and changes nothing
\* generateId: kv.get throws; createPaste rethrows it as CREATE_FAILED
GenerateIdFails(p) ==
  /\ proc[p].pc = "gen"
  /\ FinishWith(p, [proc[p] EXCEPT !.checks = @ + 1], "CREATE_FAILED", None)
  /\ UNCHANGED <<now, kv, nextSn, given, at, fate>>

\* createPaste: kv.put throws; rethrown as CREATE_FAILED
CreatePastePutFails(p) ==
  /\ proc[p].pc = "put"
  /\ FinishWith(p, [proc[p] EXCEPT !.puts = @ + 1], "CREATE_FAILED", None)
  /\ UNCHANGED <<now, kv, nextSn, given, at, fate>>

GetPasteRaises(p) ==
  /\ proc[p].pc \in {"get", "getdel"}
  /\ Finish(p, IF proc[p].op = "get" THEN "GET_FAILED" ELSE "500", None)
  /\ UNCHANGED <<now, kv, nextSn, given, at, fate>>

\* getPaste: kv.get or kv.delete throws; the catch returns null
GetPasteFails(p) ==
  /\ proc[p].pc \in {"get", "getdel"}
  /\ ReturnFromGetPaste(p, None)
  /\ UNCHANGED <<now, kv, nextSn, given, at, fate>>

ConsumePasteFailsLate(p) ==
  /\ proc[p].pc \in {"cget", "cdelx", "cdel"}
  /\ ReturnFromConsumePaste(p, IF proc[p].pc = "cdel" THEN proc[p].paste ELSE None)
  /\ UNCHANGED <<now, kv, nextSn, given, at, fate>>

\* consumePaste: kv.get or kv.delete throws; the catch returns null
ConsumePasteFails(p) ==
  /\ proc[p].pc \in {"cget", "cdelx", "cdel"}
  /\ ReturnFromConsumePaste(p, None)
  /\ UNCHANGED <<now, kv, nextSn, given, at, fate>>

\* deletePaste: kv.delete throws; rethrown as DELETE_FAILED, which the catch
\* of the calling handler turns into its failure response
DeletePasteFails(p) ==
  /\ proc[p].pc = "del"
  /\ Finish(p, IF proc[p].op = "delete" THEN "DELETE_FAILED" ELSE "500", None)
  /\ UNCHANGED <<now, kv, nextSn, given, at, fate>>

\* ------------------------------------------------- the create entry points
\* DEFAULT_CONFIG
MAX_CONTENT_SIZE == 1024 * 1024
MAX_TITLE_LENGTH == 200
MIN_EXPIRY == 300
MAX_EXPIRY == 2592000
DEFAULT_EXPIRY == "1d"
EXPIRY_OPTIONS ==
  [k \in {"5m", "1h", "6h", "1d", "1w", "1m"} |->
     CASE k = "5m" -> 300 [] k = "1h" -> 3600 [] k = "6h" -> 21600
       [] k = "1d" -> 86400 [] k = "1w" -> 604800 [] k = "1m" -> 2592000]
SUPPORTED_LANGUAGES ==
  {"text", "json", "javascript", "typescript", "python", "java", "sql", "shell",
   "bash", "css", "html", "xml", "markdown", "yaml", "dockerfile", "go", "rust",
   "cpp", "c", "php", "ruby", "swift", "kotlin", "scala", "r", "matlab",
   "powershell"}

\* the strings of the requests: a content is a core text with pad whitespace
\* characters around it; a title is a name with a length
EmptyText == [txt |-> "", len |-> 0, ell |-> FALSE]
SmallText == [txt |-> "c1", len |-> 3, ell |-> FALSE]
HugeText == [txt |-> "c3", len |-> MAX_CONTENT_SIZE + 1, ell |-> FALSE]
\* texts that match suspicious patterns: an AWS key; an AWS key and a
\* connection string; a password assignment
KeyText == [txt |-> "key", len |-> 20, ell |-> FALSE]
KeysText == [txt |-> "keys", len |-> 50, ell |-> FALSE]
PwdText == [txt |-> "pwd", len |-> 17, ell |-> FALSE]
ReqContents ==
  {None, Some([core |-> HugeText, pad |-> 0])}
    \cup {Some([core |-> c, pad |-> n]) : c \in {EmptyText, SmallText}, n \in {0, 2}}
    \cup {Some([core |-> c, pad |-> 0]) : c \in {KeyText, KeysText, PwdText}}
ReqTitles == {None, Some("t1"), Some("long")}
ReqKeys == {None} \cup {Some(k) : k \in {"5m", "1h", "24h", "7d", "30d"}}
ReqSeconds ==
  {None} \cup {Some(n) : n \in {-5, 0, MIN_EXPIRY - 1, MIN_EXPIRY, MAX_EXPIRY + 1}}

\* title.length
Length(t) ==
  CASE t = "" -> 0
    [] t = "t1" -> 2
    [] t = "long" -> MAX_TITLE_LENGTH + 1
    [] t = "long-cut" -> MAX_TITLE_LENGTH
    [] t = "Untitled Paste" -> 14

\* the language field of a create request: missing, empty, blank, a
\* supported language as it is, in capitals and with blanks around it, and
\* a language that is not supported
ReqLanguages ==
  {None} \cup {Some(l) : l \in {"", "  ", "python", "JavaScript", " sql ", "klingon"}}

\* language.toLowerCase().trim()
LowerTrim(language) ==
  CASE language = "  " -> ""
    [] language = "JavaScript" -> "javascript"
    [] language = " sql " -> "sql"
    [] OTHER -> language

\* the JSON bodies of POST /create (the field expires_in is written
\* expiresIn): every content and title with the default expiry, and every
\* expiry and view mode with a valid content.  The fields of the request
\* records are written in the order in which TLC keeps the fields of a record.
JsonBodies ==
  [content : ReqContents, oneTimeView : {None}, title : ReqTitles,
   language : {Some("javascript")}, expires : {None}, expiresIn : {None}]
    \cup [content : {Some([core |-> SmallText, pad |-> 0])},
          oneTimeView : {None, Some(TRUE), Some(FALSE)}, title : {Some("t1")},
          language : {Some("javascript")}, expires : ReqKeys, expiresIn : ReqSeconds]
    \cup [content : {Some([core |-> SmallText, pad |-> 0])},
          oneTimeView : {None}, title : {Some("t1")},
          language : ReqLanguages, expires : {None}, expiresIn : {None}]

\* the form submissions of POST /create, chosen likewise
FormDatas ==
  [content : ReqContents, title : ReqTitles, language : {None}, expires : {None},
   viewMode : {None}]
    \cup [content : {Some([core |-> SmallText, pad |-> 0])}, title : {Some("t1")},
          language : {None}, expires : ReqKeys,
          viewMode : {None, Some("one-time"), Some("multi")}]
    \cup [content : {Some([core |-> SmallText, pad |-> 0])}, title : {Some("t1")},
          language : ReqLanguages, expires : {None}, viewMode : {None}]

\* JavaScript truthiness of an optional string / number
TruthyText(c) == c # None /\ c[1].core.len + c[1].pad > 0
TruthyString(o) == o # None /\ o[1] # ""
TruthyNumber(o) == o # None /\ o[1] # 0

\* body.content.trim()
Trim(c) == c.core

\* SanitizationUtils.sanitizeUserInput(input, maxLength)
SanitizeUserInput(t, maxLength) == IF Length(t) > maxLength THEN "long-cut" ELSE t

\* LanguageDetector.patterns, in the order of the table: the languages the
\* model draws matches for, the number of patterns of each and its weight in
\* hundredths
PatternTable ==
  <<[lang |-> "javascript", count |-> 9, weight |-> 80],
    [lang |-> "python", count |-> 8, weight |-> 80],
    [lang |-> "sql", count |-> 7, weight |-> 90],
    [lang |-> "html", count |-> 8, weight |-> 90],
    [lang |-> "dockerfile", count |-> 8, weight |-> 90]>>
TableLangs == {PatternTable[k].lang : k \in DOMAIN PatternTable}

\* detect: scores[lang] for a language with matchCount patterns matching,
\* each with a match of length 1, as a fraction: score is matchCount * weight,
\* and it is multiplied by matchCount / patterns.length.  The division by
\* max(1, log10(contentLength)) is the same positive factor for every
\* language and is left out.
ScoreOf(entry, matchCount) ==
  [lang |-> entry.lang, num |-> matchCount * entry.weight * matchCount,
   den |-> entry.count]

\* detect: Object.entries(scores), the languages with matchCount > 0 in the
\* order of the table
RECURSIVE EntriesFrom(_, _)
EntriesFrom(k, matches) ==
  IF k > Len(PatternTable) THEN <<>>
  ELSE (IF matches[PatternTable[k].lang] > 0
          THEN <<ScoreOf(PatternTable[k], matches[PatternTable[k].lang])>>
          ELSE <<>>) \o EntriesFrom(k + 1, matches)

\* curr[1] > prev[1]
Greater(curr, prev) == curr.num * prev.den > prev.num * curr.den

\* detect: entries.reduce((prev, curr) => curr[1] > prev[1] ? curr : prev)
RECURSIVE BestMatch(_, _)
BestMatch(prev, rest) ==
  IF rest = <<>> THEN prev
  ELSE BestMatch(IF Greater(Head(rest), prev) THEN Head(rest) ELSE prev, Tail(rest))

\* LanguageDetector.detect(content) without a filename; matches: language ->
\* the number of its patterns that match the content
DetectLanguage(matches) ==
  LET entries == EntriesFrom(1, matches) IN
    IF Len(entries) = 0 THEN "text"
    ELSE BestMatch(Head(entries), Tail(entries)).lang

\* the contents of the create requests of the model match no pattern
NoMatches == [l \in TableLangs |-> 0]

\* LanguageDetector.detect on the contents of the model
Detect(content) == DetectLanguage(NoMatches)

SanitizeLanguageKeeps(language) == LowerTrim(language)

\* SanitizationUtils.sanitizeLanguage
SanitizeLanguage(language) ==
  LET cleaned == LowerTrim(language) IN
    IF cleaned \in SUPPORTED_LANGUAGES THEN cleaned ELSE "text"

\* ConfigValidator.validateExpiry(expiryKey)
ValidKey(k) == k \in DOMAIN EXPIRY_OPTIONS

\* ConfigValidator.getExpirySeconds(expiryKey)
GetExpirySeconds(k) ==
  IF k \in DOMAIN EXPIRY_OPTIONS THEN EXPIRY_OPTIONS[k] ELSE EXPIRY_OPTIONS[DEFAULT_EXPIRY]

\* parseRequest: the expiry in seconds, None for an invalid expiry option
ResolveExpiry(body) ==
  IF TruthyString(body.expires)
    THEN IF ValidKey(body.expires[1]) THEN Some(GetExpirySeconds(body.expires[1])) ELSE None
  ELSE IF TruthyNumber(body.expiresIn) THEN Some(body.expiresIn[1])
  ELSE Some(GetExpirySeconds(DEFAULT_EXPIRY))

\* parseRequest: body.oneTimeView !== false
OneTimeViewOf(body) == body.oneTimeView # Some(FALSE)

\* parseRequest: an error, or the data of the request
ParseRequest(body) ==
  IF ~TruthyText(body.content)
    THEN [error |-> "Content is required"]
  ELSE IF Trim(body.content[1]).len = 0
    THEN [error |-> "Content cannot be empty"]
  ELSE IF ResolveExpiry(body) = None
    THEN [error |-> "Invalid expiry option"]
  ELSE [error |-> "",
        title |-> SanitizeUserInput(IF TruthyString(body.title) THEN body.title[1] ELSE "",
                                    MAX_TITLE_LENGTH),
        content |-> Trim(body.content[1]),
        language |-> SanitizeLanguage(
                       IF body.language # None /\ LowerTrim(body.language[1]) # ""
                         THEN LowerTrim(body.language[1])
                         ELSE Detect(Trim(body.content[1]))),
        expirySeconds |-> ResolveExpiry(body)[1],
        oneTimeView |-> OneTimeViewOf(body)]

\* SecurityManager.suspiciousPatterns: the names of the patterns, in the
\* order of the table, that match the title and the content (the titles of
\* the model match none), and the severity of a pattern
Matched(content, title) ==
  CASE content.txt = "key" -> <<"aws_key">>
    [] content.txt = "keys" -> <<"aws_key", "connection_string">>
    [] content.txt = "pwd" -> <<"password">>
    [] OTHER -> <<>>
Severity(name) == IF name \in {"password", "jwt_token", "email_bulk"} THEN "medium" ELSE "high"

\* SecurityManager.checkSuspiciousContent: one warning for each pattern of
\* high severity that matches
IsHigh(name) == Severity(name) = "high"
CheckSuspiciousContent(content, title) == SelectSeq(Matched(content, title), IsHigh)

\* SecurityManager.validateContent: result.warnings; the quality checks run
\* under strictValidation only
SUSPICIOUS_PATTERNS_ENABLED == TRUE
STRICT_VALIDATION == FALSE
\* the texts of the model hold no excessive whitespace, no long repetition
\* and no very long line
QualityWarnings(content) == <<>>
ContentWarnings(content, title) ==
  (IF STRICT_VALIDATION THEN QualityWarnings(content) ELSE <<>>)
    \o (IF SUSPICIOUS_PATTERNS_ENABLED THEN CheckSuspiciousContent(content, title)
                                       ELSE <<>>)

ValidateContentBlocks(content, title) ==
  IF content.len = 0 THEN "Content cannot be empty"
  ELSE IF content.len > MAX_CONTENT_SIZE THEN "Content too large"
  ELSE IF Length(title) > MAX_TITLE_LENGTH THEN "Title too long"
  ELSE IF ContentWarnings(content, title) # <<>> THEN "Suspicious content"
  ELSE ""

\* SecurityManager.validateContent: result.error, "" when valid
ValidateContent(content, title) ==
  IF content.len = 0 THEN "Content cannot be empty"
  ELSE IF content.len > MAX_CONTENT_SIZE THEN "Content too large"
  ELSE IF Length(title) > MAX_TITLE_LENGTH THEN "Title too long"
  ELSE ""

ValidateExpiryAny(expirySeconds, minExpiry, maxExpiry) == ""

ValidateExpiryNoMin(expirySeconds, minExpiry, maxExpiry) ==
  IF expirySeconds < 0 THEN "Invalid expiry time"
  ELSE IF expirySeconds > maxExpiry THEN "Maximum expiry time"
  ELSE ""

\* SecurityManager.validateExpiry: "" when valid
ValidateExpiry(expirySeconds, minExpiry, maxExpiry) ==
  IF expirySeconds < 0 THEN "Invalid expiry time"
  ELSE IF expirySeconds < minExpiry THEN "Minimum expiry time"
  ELSE IF expirySeconds > maxExpiry THEN "Maximum expiry time"
  ELSE ""

GetExpiryDateLate(seconds, t) == t + seconds * TicksPerSec + 1

\* TimeUtils.getExpiryDate(seconds), read at time t
GetExpiryDate(seconds, t) == t + seconds * TicksPerSec

\* CreateHandler.handle: the CreatePasteInput built from the parsed request
PasteInput(d, t) ==
  [title |-> IF d.title # "" THEN d.title ELSE "Untitled Paste",
   content |-> d.content,
   language |-> d.language,
   expiresAt |-> IF d.expirySeconds > 0
                   THEN Some(GetExpiryDate(d.expirySeconds, t)) ELSE None,
   size |-> d.content.len,
   consumed |-> None,
   oneTimeView |-> d.oneTimeView]

\* CreateHandler.handle: the validation error of a request, "" when it passes
Rejection(body) ==
  LET r == ParseRequest(body) IN
    IF r.error # "" THEN r.error
    ELSE IF ValidateContent(r.content, r.title) # ""
      THEN ValidateContent(r.content, r.title)
    ELSE ValidateExpiry(r.expirySeconds, MIN_EXPIRY, MAX_EXPIRY)

\* CreateHandler.handle on a JSON body; req is the request as it arrived
Handle(p, body, req) ==
  /\ proc[p].pc = "idle"
  /\ nextSn <= MaxPastes
  /\ IF Rejection(body) # ""
       THEN /\ FinishWith(p, [Idle EXCEPT !.op = "hcreate", !.req = Some(req)],
                          Rejection(body), None)
            /\ UNCHANGED <<nextSn, given>>
       ELSE /\ proc' = [proc EXCEPT ![p] =
                 [Idle EXCEPT !.op = "create", !.pc = "gen", !.sn = nextSn,
                              !.req = Some(req),
                              !.data = Some(PasteInput(ParseRequest(body), now)),
                              !.warnings = ContentWarnings(ParseRequest(body).content,
                                                           ParseRequest(body).title)]]
            /\ out' = NoOut
            /\ nextSn' = nextSn + 1
            /\ given' = [given EXCEPT ![nextSn] = Some(PasteInput(ParseRequest(body), now))]
            /\ UNCHANGED hist
  /\ UNCHANGED <<now, kv, at, fate>>

\* handleFormData: the CreatePasteRequest built from the form fields
FormToJson(form) ==
  [content |-> Some(IF form.content = None THEN [core |-> EmptyText, pad |-> 0]
                    ELSE form.content[1]),
   oneTimeView |-> Some(form.viewMode = Some("one-time")),
   title |-> Some(IF form.title = None THEN "" ELSE form.title[1]),
   language |-> Some(IF form.language = None THEN "" ELSE form.language[1]),
   expires |-> Some(IF TruthyString(form.expires) THEN form.expires[1] ELSE DEFAULT_EXPIRY),
   expiresIn |-> None]

\* POST /create with a JSON body
HandleJson(p, body) ==
  Handle(p, body, [content |-> body.content, title |-> body.title,
                   language |-> body.language, entry |-> "json",
                   expires |-> body.expires, expiresIn |-> body.expiresIn,
                   mode |-> body.oneTimeView # None])

\* POST /create with form data: handleFormData, then handle
HandleFormData(p, form) ==
  Handle(p, FormToJson(form), [content |-> form.content, title |-> form.title,
                               language |-> form.language,
                               entry |-> "form", expires |-> form.expires,
                               expiresIn |-> None, mode |-> form.viewMode # None])

\* ---------------------------------------------------------- rate limiting
\* the limits of the deployment, in requests per minute and client IP
RATE_LIMITING_ENABLED == TRUE
RATE_LIMIT_CREATE == 10
RATE_LIMIT_VIEW == 100
RateLimit(action) == IF action = "create" THEN RATE_LIMIT_CREATE ELSE RATE_LIMIT_VIEW

\* SecurityManager.validateRateLimit(clientIP, action): valid
ValidateRateLimit(clientIP, action) == TRUE

\* SanitizationUtils.extractClientIP(request): all requests of the model come
\* from one client
ClientIP == "ip1"

\* the bodies of the create requests of that client: one without content,
\* one that passes every validation
RateBodies ==
  {b \in JsonBodies : /\ b.content \in {None, Some([core |-> SmallText, pad |-> 0])}
                      /\ b.title = Some("t1") /\ b.oneTimeView = None
                      /\ b.language = Some("javascript")
                      /\ b.expires = None /\ b.expiresIn = None}

\* a create request with the given body, or a view request (body None) for
\* the id "A", arrives from the client; the clock does not advance in the
\* runs this is part of, so all its requests fall into one minute.  data
\* holds the body until the handler has parsed it.
Receive(p, action, body) ==
  /\ proc[p].pc = "idle"
  /\ hits[action] <= RateLimit(action)
  /\ (body # None /\ Rejection(body[1]) = "") => nextSn <= MaxPastes
  /\ hits' = [hits EXCEPT ![action] = @ + 1]
  /\ proc' = [proc EXCEPT ![p] =
       [Idle EXCEPT !.op = IF action = "create" THEN "hcreate" ELSE "view",
                    !.pc = "rate", !.data = body]]
  /\ out' = NoOut
  /\ UNCHANGED <<now, kv, nextSn, given, at, fate, delivered, leaked, mock, stats>>

\* the head of CreateHandler.handle and ViewHandler.handle: the rate
\* limiting check, and then the request is processed as by Handle and Enter
RateLimitCheck(p) ==
  /\ proc[p].pc = "rate"
  /\ LET pr == proc[p]
         action == IF pr.op = "view" THEN "view" ELSE "create"
     IN IF RATE_LIMITING_ENABLED /\ ~ValidateRateLimit(ClientIP, action)
          THEN /\ FinishWith(p, [pr EXCEPT !.data = None], "429", None)
               /\ UNCHANGED <<nextSn, given>>
        ELSE IF action = "view"
          THEN /\ proc' = [proc EXCEPT ![p] =
                    [Idle EXCEPT !.op = "view", !.pc = FirstPc("view"), !.id = "A"]]
               /\ out' = NoOut
               /\ UNCHANGED <<nextSn, given, hist>>
        ELSE IF Rejection(pr.data[1]) # ""
          THEN /\ FinishWith(p, [pr EXCEPT !.data = None], Rejection(pr.data[1]), None)
               /\ UNCHANGED <<nextSn, given>>
        ELSE /\ nextSn <= MaxPastes
             /\ proc' = [proc EXCEPT ![p] =
                  [Idle EXCEPT !.op = "create", !.pc = "gen", !.sn = nextSn,
                               !.data = Some(PasteInput(ParseRequest(pr.data[1]), now)),
                               !.warnings = ContentWarnings(ParseRequest(pr.data[1]).content,
                                                            ParseRequest(pr.data[1]).title)]]
             /\ out' = NoOut
             /\ nextSn' = nextSn + 1
             /\ given' = [given EXCEPT ![nextSn] = Some(PasteInput(ParseRequest(pr.data[1]), now))]
             /\ UNCHANGED hist
  /\ UNCHANGED <<now, kv, at, fate>>

\* parseRequest calls LanguageDetector.detect on a content with the given
\* matches
DetectCall(matches) ==
  /\ out' = [NoOut EXCEPT !.op = "detect", !.status = DetectLanguage(matches),
                          !.req = Some(matches)]
  /\ UNCHANGED <<now, kv, proc, nextSn, given, at, fate, hist>>

\* the id KVStorage.generateId returns: IdLength characters drawn from
\* a-z, A-Z and 0-9; c names the characters drawn
KvId(c) == [txt |-> c, len |-> IdLength, junk |-> 0]

\* String(n).length
Digits(n) == IF n < 10 THEN 1 ELSE IF n < 100 THEN 2 ELSE 3

\* the id MockStorage.createPaste returns for the counter value n:
\* `paste_${n}`, the letters of paste and the digits of n around one "_"
MockId(n) == [txt |-> "paste", len |-> 5 + Digits(n), junk |-> 1]

\* createPaste of a KVStorage returns a paste with an id of the characters
\* c; sanitizePasteId is applied to the id as it stands in the share URL
KvCreates(c) ==
  /\ out' = [NoOut EXCEPT !.op = "newid", !.id = "kv", !.raw = Some(KvId(c)),
                          !.body = SanitizePasteId(KvId(c))]
  /\ UNCHANGED <<now, kv, proc, nextSn, given, at, fate, hist>>

\* the n-th createPaste of a MockStorage, likewise
MockCreates(n) ==
  /\ out' = [NoOut EXCEPT !.op = "newid", !.id = "mock", !.raw = Some(MockId(n)),
                          !.body = SanitizePasteId(MockId(n)), !.sn = n]
  /\ UNCHANGED <<now, kv, proc, nextSn, given, at, fate, hist>>

\* ------------------------------------------------------------ KVAnalytics
\* addToSample keeps that many samples
MaxSamples == 1000

\* getCounter: the number stored under key, 0 when there is none
GetCounter(key) == IF counters[key] = None THEN 0 ELSE counters[key][1]

\* the track calls begun: those completed and those in progress
Begun == tracked["viewed"] + tracked["created"]
           + Cardinality({t \in Trackers : calling[t] # NoCall})

AllDone(t) == \A k \in StatKeys : incr[t][k][1] \in {"off", "done"}

\* the rest of the state, which KVAnalytics leaves alone
StatsOnly ==
  /\ out' = NoOut
  /\ UNCHANGED <<now, kv, proc, nextSn, given, at, fate, delivered, leaked, hits, mock>>

\* request t calls trackPasteViewed or trackPasteCreated: Promise.all
\* starts one incrementCounter per key, each of which issues its kv.get
Track(t, kind) ==
  /\ calling[t] = NoCall
  /\ Begun < MaxCalls
  /\ calling' = [calling EXCEPT ![t] = <<kind, "counters">>]
  /\ incr' = [incr EXCEPT ![t] =
       [k \in StatKeys |-> IF k \in CounterKeys(kind) THEN <<"get", 0>> ELSE <<"off", 0>>]]
  /\ UNCHANGED <<counters, tracked>>
  /\ StatsOnly

\* incrementCounter(key): kv.get returns; value is the number read plus
\* one, or 1 when there is none, and kv.put is issued
IncrementCounterGet(t, key) ==
  /\ incr[t][key][1] = "get"
  /\ incr' = [incr EXCEPT ![t][key] =
       <<"put", IF counters[key] = None THEN 1 ELSE counters[key][1] + 1>>]
  /\ UNCHANGED <<counters, calling, tracked>>
  /\ StatsOnly

\* incrementCounter(key): kv.put has stored value
IncrementCounterPut(t, key) ==
  /\ incr[t][key][1] = "put"
  /\ counters' = [counters EXCEPT ![key] = Some(incr[t][key][2])]
  /\ incr' = [incr EXCEPT ![t][key] = <<"done", 0>>]
  /\ UNCHANGED <<calling, tracked>>
  /\ StatsOnly

\* trackPasteCreated: Promise.all has resolved and addToSample is called;
\* its kv.get returns the samples, of which the number is kept here, one
\* is pushed, the last MaxSamples are kept, and kv.put is issued
AddToSampleGet(t) ==
  /\ calling[t] = <<"created", "counters">>
  /\ AllDone(t)
  /\ calling' = [calling EXCEPT ![t] = <<"created", "sample">>]
  /\ incr' = [incr EXCEPT ![t]["sizes"] = <<"put", Min(MaxSamples, GetCounter("sizes") + 1)>>]
  /\ UNCHANGED <<counters, tracked>>
  /\ StatsOnly

\* addToSample: kv.put has stored the samples
AddToSamplePut(t) ==
  /\ calling[t] = <<"created", "sample">>
  /\ counters' = [counters EXCEPT !["sizes"] = Some(incr[t]["sizes"][2])]
  /\ incr' = [incr EXCEPT ![t]["sizes"] = <<"done", 0>>]
  /\ calling' = [calling EXCEPT ![t] = <<"created", "event">>]
  /\ UNCHANGED tracked
  /\ StatsOnly

\* the event is put under a key of its own and the track call returns
EventPut(t) ==
  /\ \/ calling[t] = <<"created", "event">>
     \/ calling[t] = <<"viewed", "counters">> /\ AllDone(t)
  /\ tracked' = [tracked EXCEPT ![calling[t][1]] = @ + 1]
  /\ calling' = [calling EXCEPT ![t] = NoCall]
  /\ incr' = [incr EXCEPT ![t] = NoIncrements]
  /\ UNCHANGED counters
  /\ StatsOnly

\* ------------------------------------------------------------ environment
Tick ==
  /\ now < MaxTime
  /\ now' = now + 1
  /\ proc' = [p \in Procs |->
                IF proc[p].follows.kind # "created" THEN proc[p]
                ELSE [proc[p] EXCEPT !.follows.aged = TRUE]]
  /\ out' = NoOut
  /\ UNCHANGED <<kv, nextSn, given, at, fate, hist>>

\* the backend drops a record whose TTL has run out, at some later moment
Sweep(i) ==
  /\ kv[i] # None
  /\ kv[i][1].ttlAt # None
  /\ kv[i][1].ttlAt[1] <= now
  /\ kv' = [kv EXCEPT ![i] = None]
  /\ fate' = Removed(i, "swept")
  /\ out' = NoOut
  /\ UNCHANGED <<now, proc, nextSn, given, at, hist>>

\* ------------------------------------------------------ the specifications
\* the steps of the storage operations
StoreStep(p, ids) ==
  \/ GenerateId(p, ids)
  \/ CreatePastePut(p)
  \/ GetPasteRead(p)
  \/ GetPasteDelete(p)
  \/ ConsumePasteRead(p)
  \/ ConsumePasteDeleteExpired(p)
  \/ ConsumePasteDelete(p)
  \/ DeletePaste(p)

\* the steps of the handlers
HandlerStep(p) ==
  \/ ViewCheck(p)
  \/ PreviewCheck(p)
  \/ DownloadCheck(p)

\* the storage interface in a sequential run: one caller, one call at a time
NextStore ==
  \/ \E o \in {"get", "consume", "delete"}, i \in Ids : Call("p1", o, i, {"follows"})
  \/ \E d \in InputsWith(Contents) : CallCreate("p1", d)
  \/ StoreStep("p1", Ids)
  \/ Tick
  \/ \E i \in Ids : Sweep(i)

SpecStore == Init /\ [][NextStore]_vars

\* the handlers in a sequential run: one request at a time
NextSeq ==
  \/ \E o \in {"view", "head", "preview", "download", "hdelete"}, i \in Ids :
        Call("p1", o, i, {})
  \/ \E d \in InputsWith(Contents) : CallCreate("p1", d)
  \/ StoreStep("p1", Ids)
  \/ HandlerStep("p1")
  \/ HeadCheck("p1")
  \/ Tick
  \/ \E i \in Ids : Sweep(i)

SpecSeq == Init /\ [][NextSeq]_vars

\* requests overlap freely, all on one id
Next ==
  \/ \E p \in Procs, o \in {"get", "consume", "delete", "view"} :
        Call(p, o, "A", {"dead"})
  \/ \E p \in Procs, d \in InputsWith({[txt |-> "c1", len |-> 3, ell |-> FALSE]}) :
        CallCreate(p, d)
  \/ \E p \in Procs : StoreStep(p, {"A"})
  \/ \E p \in Procs : ViewCheck(p)
  \/ Tick
  \/ Sweep("A")

Spec == Init /\ [][Next]_vars

\* the create entry points in a sequential run
NextCreate ==
  \/ \E b \in JsonBodies : HandleJson("p1", b)
  \/ \E f \in FormDatas : HandleFormData("p1", f)
  \/ GenerateId("p1", Ids)
  \/ CreatePastePut("p1")

SpecCreate == Init /\ [][NextCreate]_vars

\* how the requests of SpecHttp arrive: every id of RawIds from an API client
\* with working analytics, and the well-formed id from either kind of client
\* with working or failing analytics
Arrivals ==
  {<<raw, TRUE, "ok">> : raw \in RawIds}
    \cup {<<[txt |-> "A", len |-> IdLength, junk |-> 0], api, track>> :
             api \in BOOLEAN, track \in {"ok", "throws"}}

\* the view, HEAD, preview and delete handlers and the create handler in a
\* sequential run on one stored id, with ids as they stand in the path,
\* failing backend calls and failing analytics
NextHttp ==
  \/ \E o \in {"view", "head", "preview", "hdelete"}, a \in Arrivals :
        Enter("p1", o, a[1], a[2], a[3])
  \/ \E d \in InputsWith({[txt |-> "c1", len |-> 3, ell |-> FALSE]}),
        track \in {"ok", "throws"} : EnterCreate("p1", d, track)
  \/ StoreStep("p1", {"A"})
  \/ ViewCheck("p1")
  \/ PreviewCheck("p1")
  \/ HeadCheck("p1")
  \/ GetPasteMiss("p1")
  \/ GenerateIdFails("p1")
  \/ CreatePastePutFails("p1")
  \/ GetPasteFails("p1")
  \/ ConsumePasteFails("p1")
  \/ DeletePasteFails("p1")
  \/ Tick
  \/ Sweep("A")

SpecHttp == Init /\ [][NextHttp]_vars

\* the storage interface with two callers, each working on an id of its own:
\* their operations overlap freely
IdOf(p) == IF p = "p1" THEN "A" ELSE "B"
NextPair ==
  \/ \E p \in Procs, o \in {"get", "consume", "delete"} : Call(p, o, IdOf(p), {})
  \/ \E p \in Procs, d \in InputsWith({[txt |-> "c1", len |-> 3, ell |-> FALSE]}) :
        CallCreate(p, d)
  \/ \E p \in Procs : StoreStep(p, {IdOf(p)})
  \/ Tick
  \/ \E i \in Ids : Sweep(i)

SpecPair == Init /\ [][NextPair]_vars

\* getPaste, consumePaste and the view handler on one id in a sequential
\* run over a backend whose calls can fail
NextFault ==
  \/ \E o \in {"get", "consume", "view"} : Call("p1", o, "A", {})
  \/ \E d \in InputsWith({[txt |-> "c1", len |-> 3, ell |-> FALSE]}) : CallCreate("p1", d)
  \/ StoreStep("p1", {"A"})
  \/ ViewCheck("p1")
  \/ GetPasteFails("p1")
  \/ ConsumePasteFails("p1")
  \/ DeletePasteFails("p1")
  \/ Tick
  \/ Sweep("A")

SpecFault == Init /\ [][NextFault]_vars

\* the ids of the two storages, up to the counter value MaxCounter
NextIds ==
  \/ \E c \in Ids : KvCreates(c)
  \/ \E n \in 1..MaxCounter : MockCreates(n)

SpecIds == Init /\ [][NextIds]_vars

\* a KVStorage over a fault-free backend and a MockStorage, given the same
\* calls and the same clock, one call at a time
NextTwin ==
  \/ \E o \in {"get", "consume", "delete"}, s \in Sns : Drive("p1", o, s)
  \/ \E d \in InputsWith({[txt |-> "c1", len |-> 3, ell |-> FALSE]}) : DriveCreate("p1", d)
  \/ GenerateOwnId("p1")
  \/ CreatePastePut("p1")
  \/ GetPasteRead("p1")
  \/ GetPasteDelete("p1")
  \/ ConsumePasteRead("p1")
  \/ ConsumePasteDeleteExpired("p1")
  \/ ConsumePasteDelete("p1")
  \/ DeletePaste("p1")
  \/ Tick
  \/ \E i \in Ids : Sweep(i)

SpecTwin == Init /\ [][NextTwin]_vars

\* concurrent requests that call KVAnalytics over a fault-free backend
NextStats ==
  \/ \E t \in Trackers, kind \in Kinds : Track(t, kind)
  \/ \E t \in Trackers, key \in StatKeys : IncrementCounterGet(t, key)
  \/ \E t \in Trackers, key \in StatKeys : IncrementCounterPut(t, key)
  \/ \E t \in Trackers : AddToSampleGet(t)
  \/ \E t \in Trackers : AddToSamplePut(t)
  \/ \E t \in Trackers : EventPut(t)

SpecStats == Init /\ [][NextStats]_vars

\* create requests with a symbolic expiry key while the clock runs
StampBodies ==
  [content : {Some([core |-> SmallText, pad |-> 0])}, oneTimeView : {Some(TRUE)},
   title : {Some("t1")}, language : {Some("javascript")},
   expires : {Some(k) : k \in DOMAIN EXPIRY_OPTIONS}, expiresIn : {None}]
StampForms ==
  [content : {Some([core |-> SmallText, pad |-> 0])}, title : {Some("t1")},
   language : {None}, expires : {Some(k) : k \in DOMAIN EXPIRY_OPTIONS},
   viewMode : {Some("one-time")}]
NextStamp ==
  \/ \E b \in StampBodies : HandleJson("p1", b)
  \/ \E f \in StampForms : HandleFormData("p1", f)
  \/ GenerateId("p1", Ids)
  \/ CreatePastePut("p1")
  \/ Tick

SpecStamp == Init /\ [][NextStamp]_vars

\* language detection on contents with up to MaxMatches matching patterns
\* for each language
NextDetect == \E matches \in [TableLangs -> 0..MaxMatches] : DetectCall(matches)

SpecDetect == Init /\ [][NextDetect]_vars

\* one client sends create and view requests within one minute, one at a time
NextRate ==
  \/ \E b \in RateBodies : Receive("p1", "create", Some(b))
  \/ Receive("p1", "view", None)
  \/ RateLimitCheck("p1")
  \/ GenerateId("p1", {"A"})
  \/ CreatePastePut("p1")
  \/ GetPasteRead("p1")
  \/ ViewCheck("p1")
  \/ ConsumePasteRead("p1")
  \/ ConsumePasteDelete("p1")

SpecRate == Init /\ [][NextRate]_vars

\* ------------------------------------------------------------- properties
\* C1 as stated: in a sequential run, once a one-time paste written under
\* an id has been consumed, every later getPaste or consumePaste on that id
\* returns absent, and a successful consumePaste returns the stored content.
C1_Original ==
  /\ (out.op \in {"get", "consume"} /\ out.spentEver => out.status = "null")
  /\ (out.op = "consume" /\ out.status = "paste" =>
        out.body[1].content = given[out.body[1].sn][1].content)

\* C1, amended: in a sequential run, a successful consumePaste returns the
\* stored content, and every later getPaste or consumePaste on that id
\* returns absent for as long as no later createPaste has written a new
\* paste under the same id.
C1_Amended ==
  /\ (out.op \in {"get", "consume"} /\ out.spentNow => out.status = "null")
  /\ (out.op = "consume" /\ out.status = "paste" =>
        out.body[1].content = given[out.body[1].sn][1].content)

\* a getPaste or consumePaste completed on an id whose one-time paste had
\* been consumed before
C1_Witness == out.op \in {"get", "consume"} /\ out.spentNow /\ out.status = "null"

\* C2: a consumePaste (called directly or by a view request) that has read
\* the record of a paste returns that paste, whatever happened to the record
\* between its read and its delete; so two overlapping calls that both read
\* the record both return the content.
C2_BothReturn ==
  out.readLive # 0 => out.body # None /\ out.body[1].sn = out.readLive

\* the same one-time paste has been delivered twice
C2_Witness ==
  \E s \in Sns : given[s] # None /\ given[s][1].oneTimeView /\ delivered[s] = 2

\* C3 as stated: when a view request that found a one-time paste live has
\* completed, and the paste was neither deleted explicitly nor removed by
\* expiry, the paste has been returned at least once.
C3_Original ==
  \A s \in Sns :
    ( /\ out.op = "view" /\ out.target = s
      /\ given[s][1].oneTimeView
      /\ fate[s] \notin {"deleted", "lazy", "swept"}
      /\ ~Passed(s, now) )
    => delivered[s] >= 1

\* C3, amended: the same, provided that no createPaste has overwritten a
\* record under the id of the paste during the run (the record of the paste
\* was not overwritten, and was not removed by the consumePaste of a paste
\* it had overwritten).
C3_Amended ==
  \A s \in Sns :
    ( /\ out.op = "view" /\ out.target = s
      /\ given[s][1].oneTimeView
      /\ fate[s] \notin {"deleted", "lazy", "swept", "overwritten", "displaced"}
      /\ ~Passed(s, now) )
    => delivered[s] >= 1

\* a view request that found the one-time paste live lost the race and
\* answered 404, and the paste has been delivered by another request
C3_Witness ==
  /\ out.op = "view" /\ out.target # 0 /\ out.status = "404"
  /\ given[out.target][1].oneTimeView
  /\ fate[out.target] = "consumed"
  /\ ~Passed(out.target, now)
  /\ delivered[out.target] >= 1

\* C4 as stated: once a view, preview or download request has returned the
\* full content of a one-time paste, the record is absent from the store.
C4_DeletedAfterView ==
  \A s \in Sns :
    (given[s] # None /\ given[s][1].oneTimeView /\ (delivered[s] >= 1 \/ leaked[s]))
    => fate[s] # "stored"

C6_LazyExpiry ==
  /\ (out.op = "get" /\ out.body # None => ~Passed(out.body[1].sn, now))
  /\ (out.sawExp => out.body = None /\ kv[out.id] = None)
  /\ (out.op = "get" /\ out.follows.kind = "expired" => out.status = "null")

\* a getPaste completed right after a getPaste or consumePaste that had
\* found the record expired
C6_Witness == out.op = "get" /\ out.follows.kind = "expired" /\ out.status = "null"

\* C7: a getPaste called right after createPaste returned, on the id it
\* returned, before the clock has advanced and before the expiresAt given,
\* returns a paste whose content, title, language and oneTimeView are those
\* given to createPaste.
C7_RoundTrip ==
  ( /\ out.op = "get" /\ out.follows.kind = "created" /\ ~out.follows.aged
    /\ ~Passed(out.follows.sn, now) )
  => /\ out.status = "paste"
     /\ LET data == given[out.follows.sn][1]
            paste == out.body[1]
        IN /\ paste.content = data.content
           /\ paste.title = data.title
           /\ paste.language = data.language
           /\ paste.oneTimeView = data.oneTimeView

\* a getPaste right after a createPaste returned the paste
C7_Witness ==
  out.op = "get" /\ out.follows.kind = "created" /\ ~out.follows.aged /\ out.status = "paste"

\* C8 as stated: a getPaste on the id of a multi-view paste that has been
\* stored, has not been deleted, consumed or overwritten, and whose
\* expiresAt has not passed, returns that paste with the content given.
C8_Repeatable ==
  \A s \in Sns :
    ( /\ out.op = "get" /\ at[s] = out.id
      /\ ~given[s][1].oneTimeView
      /\ fate[s] \in {"stored", "swept"}
      /\ ~Passed(s, now) )
    => /\ out.body # None
       /\ out.body[1].sn = s
       /\ out.body[1].content = given[s][1].content

\* C9 as stated: no createPaste writes its record under an id that holds a
\* record at the moment of the write.
C9_Original == ~out.overwrote

\* C9, amended: no createPaste writes its record under an id that held a
\* record at the moment generateId checked that id.
C9_Amended == out.op = "create" /\ out.status = "created" => out.freeAtCheck

\* a createPaste has overwritten the record another createPaste wrote after
\* the check
C9_Witness == out.overwrote /\ out.freeAtCheck

\* C10: generateId checks at most maxAttempts candidates; a createPaste that
\* stored a paste wrote once; a createPaste that failed with
\* ID_GENERATION_FAILED checked maxAttempts candidates, wrote nothing, and
\* the create request answers with a failure.
C10_Bounded ==
  /\ \A p \in Procs : proc[p].checks <= maxAttempts
  /\ out.checks <= maxAttempts
  /\ (out.status = "created" => out.puts = 1 /\ out.http = 200)
  /\ (out.status = "ID_GENERATION_FAILED" =>
        out.checks = maxAttempts /\ out.puts = 0 /\ out.http = 500 /\ out.body = None)

\* every candidate collided
C10_Witness == out.status = "ID_GENERATION_FAILED" /\ out.checks = maxAttempts

\* C11 as stated: the delete entry point (ViewHandler.handleDelete) answers
\* with success whether or not a paste is stored under the id.
C11_DeleteIdempotent == out.op = "hdelete" => out.status = "200"

\* C12: deletePaste completes without error and leaves no record under the
\* id; on an id without a record it changes nothing, and it never touches
\* another id; a getPaste that follows a deletePaste on the same id returns
\* absent.
C12_DeleteThenGet ==
  /\ [](out.op = "delete" => out.status = "void" /\ kv[out.id] = None)
  /\ [](out.op = "get" /\ out.follows.kind = "deleted" => out.status = "null")
  /\ [][\A p \in Procs :
          (proc[p].op = "delete" /\ proc[p].pc = "del" /\ proc'[p].pc = "idle")
          => /\ \A j \in Ids \ {proc[p].id} : kv'[j] = kv[j]
             /\ (kv[proc[p].id] = None => kv' = kv)]_vars

\* a getPaste completed right after a deletePaste on the same id
C12_Witness == out.op = "get" /\ out.follows.kind = "deleted" /\ out.status = "null"

\* what C13 lists, read off the request as it arrived: no, empty or
\* whitespace-only content, content larger than the maximum, an expiry key
\* that is not in the table, or, without a key, a raw number of seconds other
\* than zero outside the bounds
FailsValidation(req) ==
  \/ req.content = None
  \/ req.content[1].core.len = 0
  \/ req.content[1].core.len > MAX_CONTENT_SIZE
  \/ (req.expires # None /\ req.expires[1] \notin DOMAIN EXPIRY_OPTIONS)
  \/ ( /\ req.expires = None /\ req.expiresIn # None /\ req.expiresIn[1] # 0
       /\ (req.expiresIn[1] < MIN_EXPIRY \/ req.expiresIn[1] > MAX_EXPIRY) )

C14_TitleTooLong ==
  ( /\ out.req # None /\ out.req[1].title # None
    /\ Length(out.req[1].title[1]) > MAX_TITLE_LENGTH
    /\ ~FailsValidation(out.req[1]) )
  => out.op = "hcreate" /\ out.status = "Title too long"

\* C15 as stated: a create request with a raw expires_in and no key, whose
\* value is outside [MIN_EXPIRY, MAX_EXPIRY] (zero and negative included), is
\* rejected and writes nothing.
C15_RawSecondsBounds ==
  ( /\ out.req # None /\ out.req[1].expires = None /\ out.req[1].expiresIn # None
    /\ (out.req[1].expiresIn[1] < MIN_EXPIRY \/ out.req[1].expiresIn[1] > MAX_EXPIRY) )
  => out.op = "hcreate" /\ out.puts = 0

\* C16: a createPaste whose expiresAt yields, where createPaste computes the
\* TTL, a TTL that is not strictly positive fails with INVALID_EXPIRY, answers
\* with a failure, issues no put and leaves the store unchanged; INVALID_EXPIRY
\* is raised only for an expiresAt less than one second ahead.  (The TTL is
\* computed after generateId has returned an id.)
C16_InvalidExpiry ==
  /\ [](out.op = "create" /\ out.ttl # None /\ out.ttl[1] <= 0
          => /\ out.status = "INVALID_EXPIRY" /\ out.puts = 0 /\ out.http = 500
             /\ fate[out.sn] = "none")
  /\ [](out.status = "INVALID_EXPIRY"
          => /\ given[out.sn][1].expiresAt # None
             /\ given[out.sn][1].expiresAt[1] - now < TicksPerSec)
  /\ [][out'.status = "INVALID_EXPIRY" => kv' = kv]_vars

\* a createPaste failed with INVALID_EXPIRY
C16_Witness == out.op = "create" /\ out.status = "INVALID_EXPIRY" /\ out.puts = 0

\* C17 as stated: a paste that was stored and has not been consumed, deleted
\* or overwritten is in the store for as long as its expiresAt has not
\* passed: the backend TTL does not remove it earlier.
C17_VisibleUntilExpiry ==
  \A s \in Sns :
    (fate[s] \in {"stored", "swept"} /\ ~Passed(s, now))
    => kv[at[s]] # None /\ StoredPaste(at[s]).sn = s

\* C18 as stated: a paste stored for a create request that did not specify
\* the view mode, on the JSON or on the form entry point, is one-time.
C18_DefaultOneTime ==
  (out.op = "create" /\ out.status = "created" /\ out.req # None /\ ~out.req[1].mode)
  => out.body[1].oneTimeView

\* the expiry C19 describes: the seconds of a supplied key (None for a key
\* that is not in the table), else the supplied raw seconds, else the seconds
\* of the default key
ClaimedExpiry(req) ==
  IF req.expires # None
    THEN IF req.expires[1] \in DOMAIN EXPIRY_OPTIONS
           THEN Some(EXPIRY_OPTIONS[req.expires[1]]) ELSE None
  ELSE IF req.expiresIn # None THEN Some(req.expiresIn[1])
  ELSE Some(EXPIRY_OPTIONS[DEFAULT_EXPIRY])

\* C19 as stated: a request whose expiry resolves to nothing or to a value
\* outside the bounds is rejected; any other request that stores a paste
\* stores it with the resolved expiry.
C19_ExpiryResolution ==
  out.req # None =>
    LET e == ClaimedExpiry(out.req[1]) IN
      IF e = None \/ e[1] < MIN_EXPIRY \/ e[1] > MAX_EXPIRY
        THEN out.op = "hcreate"
        ELSE out.status = "created"
               => out.body[1].expiresAt = Some(GetExpiryDate(e[1], now))

\* the expiry options of the README: option -> seconds
README_EXPIRY_OPTIONS ==
  [k \in {"5m", "1h", "24h", "7d", "30d"} |->
     CASE k = "5m" -> 300 [] k = "1h" -> 3600 [] k = "24h" -> 86400
       [] k = "7d" -> 604800 [] k = "30d" -> 2592000]

\* C20 as stated: a create request with valid content and an expiry option
\* of the README is accepted, and the paste it stores expires after the
\* documented duration.
C20_ReadmeOptions ==
  ( /\ out.req # None /\ out.req[1].expires # None
    /\ out.req[1].expires[1] \in DOMAIN README_EXPIRY_OPTIONS
    /\ out.req[1].content = Some([core |-> SmallText, pad |-> 0]) )
  => /\ out.op = "create"
     /\ (out.status = "created" =>
           out.body[1].expiresAt =
             Some(GetExpiryDate(README_EXPIRY_OPTIONS[out.req[1].expires[1]], now)))

\* an id made of MinIdLength to MaxIdLength alphanumeric characters
WellFormedId(raw) ==
  raw.junk = 0 /\ raw.len >= MinIdLength /\ raw.len <= MaxIdLength

\* C21 as stated: a view, HEAD, preview or delete request whose path id is
\* not made of 8 to 20 alphanumeric characters never gets to a storage
\* lookup (it is answered in the step in which it arrives) and is answered
\* as not-found.
C21_MalformedIdNoLookup ==
  /\ \A p \in Procs : proc[p].raw # None => WellFormedId(proc[p].raw[1])
  /\ (out.raw # None /\ ~WellFormedId(out.raw[1]) => out.status = "404")

\* C22 as stated: a HEAD request whose getPaste finds the record stored with
\* an expiresAt that has passed is answered with 410.
C22_HeadExpiredGone ==
  out.op = "head" /\ out.sawExp => out.status = "410"

\* C23: a create that answers with success has written, in the step that
\* ends it, the record of its paste under the id it returns; a create whose
\* id generation, expiry check or backend write fails answers with a failure
\* and returns no descriptor.
C23_NoFalseSuccess ==
  /\ [](out.op = "create" /\ out.http = 200
          => /\ out.status = "created" /\ out.puts = 1
             /\ out.body # None /\ out.body[1].id = out.id
             /\ at[out.sn] = out.id)
  /\ [](out.op = "create" /\
          out.status \in {"ID_GENERATION_FAILED", "INVALID_EXPIRY", "CREATE_FAILED"}
          => out.http = 500 /\ out.body = None /\ at[out.sn] = "")
  /\ [][out'.op = "create" /\ out'.http = 200
          => /\ kv'[out'.id] # None
             /\ Parse(kv'[out'.id][1].value).sn = out'.sn
             /\ kv[out'.id] # kv'[out'.id]]_vars

\* a create whose kv.put failed answered with a failure
C23_Witness ==
  out.op = "create" /\ out.status = "CREATE_FAILED" /\ out.puts = 1 /\ out.http = 500

\* C24: when the analytics call of a create, view or delete request throws,
\* the response is the success response of the storage outcome, and the
\* step that ends the request leaves the store as the storage operations
\* made it: the created record stored, the deleted or consumed record gone.
C24_AnalyticsHarmless ==
  /\ [](out.track = "throws" /\ Tracks(out.op, out.core)
          => /\ out.status = out.core /\ out.http = 200
             /\ (out.op = "create" => out.body # None /\ at[out.sn] = out.id)
             /\ (out.op = "view" => out.body # None))
  /\ [][out'.track = "throws" /\ Tracks(out'.op, out'.core)
          => /\ (out'.op = "create" =>
                   kv'[out'.id] # None /\ Parse(kv'[out'.id][1].value).sn = out'.sn)
             /\ (out'.op = "hdelete" => kv'[out'.id] = None)
             /\ (out'.op = "view" /\ out'.body # None /\ out'.body[1].oneTimeView
                   => kv'[out'.id] = None)
             /\ (out'.op = "view" /\ out'.body # None /\ ~out'.body[1].oneTimeView
                   => kv' = kv)]_vars

\* a view returned the paste although the analytics call threw
C24_Witness ==
  out.track = "throws" /\ out.op = "view" /\ out.status = "200" /\ out.body # None

\* C25 as stated: a create, view, HEAD, delete or preview request that ends
\* in the failure branch of its handler is answered with an error status.
C25_StructuredFailure ==
  ( /\ out.op \in {"create", "view", "head", "hdelete", "preview"}
    /\ out.status \in {"500", "CREATE_FAILED", "ID_GENERATION_FAILED", "INVALID_EXPIRY"} )
  => out.http = 500

\* C26: a preview that succeeds returns the first previewLength characters
\* of the content (the whole content when it is not longer); no step of a
\* preview request changes the store while the record under its id has not
\* expired, and none counts as a delivery of a one-time paste: after the
\* preview the record is still there to be viewed.
C26_PreviewNonConsuming ==
  /\ [](out.op = "preview" /\ out.status = "200"
          => /\ out.body # None
             /\ out.body[1].content.txt = given[out.body[1].sn][1].content.txt
             /\ out.body[1].content.len =
                  Min(given[out.body[1].sn][1].content.len, previewLength)
             /\ out.body[1].content.len <= previewLength)
  /\ [][\A p \in Procs :
          (proc[p].op = "preview" /\ proc'[p] # proc[p])
          => /\ delivered' = delivered
             /\ ( (kv[proc[p].id] # None /\ ~IsExpired(StoredPaste(proc[p].id), now))
                  => kv' = kv )]_vars

\* a preview returned the cut content of a one-time paste whose record is
\* still stored
C26_Witness ==
  /\ out.op = "preview" /\ out.status = "200"
  /\ out.body[1].oneTimeView /\ out.body[1].content.ell
  /\ kv[out.id] # None /\ StoredPaste(out.id).sn = out.body[1].sn

\* C27: when rate limiting is enabled, a request of a client that has sent
\* more than the configured number of create or view requests within the
\* minute is answered 429 and is not processed: it reaches no storage
\* operation.
C27_RateLimited ==
  RATE_LIMITING_ENABLED =>
    /\ (out.op = "view" /\ hits["view"] > RATE_LIMIT_VIEW => out.http = 429)
    /\ (out.op \in {"create", "hcreate"} /\ hits["create"] > RATE_LIMIT_CREATE
          => out.http = 429)
    /\ \A p \in Procs :
          proc[p].pc \notin {"idle", "rate"} =>
            hits[IF proc[p].op = "view" THEN "view" ELSE "create"]
              <= RateLimit(IF proc[p].op = "view" THEN "view" ELSE "create")

\* the content of a create request passes the empty and the size check
PassesChecks(req) ==
  /\ req.content # None
  /\ req.content[1].core.len > 0
  /\ req.content[1].core.len <= MAX_CONTENT_SIZE

\* C28: a create request whose content passes the empty, size and title
\* checks is never rejected for its findings, whatever their number and
\* severity: it is rejected for its expiry only, and when the paste is
\* created the record holds the content and the response carries one warning
\* for every high-severity pattern that matches.
C28_WarningsNeverBlock ==
  (out.req # None /\ PassesChecks(out.req[1])) =>
    /\ out.op = "hcreate" =>
          out.status \in {"Invalid expiry option", "Invalid expiry time",
                          "Minimum expiry time", "Maximum expiry time"}
    /\ out.op = "create" /\ out.status = "created" =>
          /\ kv[out.id] # None
          /\ StoredPaste(out.id).content = out.req[1].content[1].core
          /\ Len(out.warnings) =
                (CASE out.req[1].content[1].core = KeyText -> 1
                   [] out.req[1].content[1].core = KeysText -> 2
                   [] OTHER -> 0)

\* a paste was created from a content with two high-severity findings
C28_Witness ==
  /\ out.op = "create" /\ out.status = "created"
  /\ out.req # None /\ out.req[1].content = Some([core |-> KeysText, pad |-> 0])
  /\ Len(out.warnings) = 2
  /\ kv[out.id] # None /\ StoredPaste(out.id).content = KeysText

\* C29: a step of getPaste, consumePaste or deletePaste on an id leaves the
\* record stored under every other id as it is, however the operations of
\* two callers interleave.
C29_Independent ==
  [][\A p \in Procs :
       (proc[p].op \in {"get", "consume", "delete"} /\ proc'[p] # proc[p])
         => \A j \in Ids \ {proc[p].id} : kv'[j] = kv[j]]_vars

\* a deletePaste on A has removed its record while B holds a record
C29_Witness ==
  /\ out.op = "delete" /\ out.id = "A" /\ kv["A"] = None
  /\ \E s \in Sns : at[s] = "A" /\ fate[s] = "deleted"
  /\ kv["B"] # None

\* the languages with the highest score among those with a match
Leaders(matches) ==
  {l \in TableLangs :
     /\ matches[l] > 0
     /\ \A k \in DOMAIN PatternTable :
          matches[PatternTable[k].lang] > 0 =>
            LET e == CHOOSE x \in DOMAIN PatternTable : PatternTable[x].lang = l IN
              ~Greater(ScoreOf(PatternTable[k], matches[PatternTable[k].lang]),
                       ScoreOf(PatternTable[e], matches[l]))}

\* C30: the detected language is 'text' when no language matches or when two
\* or more languages share the highest score, and the single highest-scoring
\* language otherwise.
C30_TiesFallBack ==
  out.op = "detect" =>
    IF Cardinality(Leaders(out.req[1])) = 1
      THEN out.status \in Leaders(out.req[1])
      ELSE out.status = "text"

\* C31: the language of every stored paste is a supported language, and a
\* create request that names a language which, in lower case and without
\* the blanks around it, is not supported stores the paste as 'text'.
C31_SupportedLanguage ==
  /\ \A i \in Ids : kv[i] # None => StoredPaste(i).language \in SUPPORTED_LANGUAGES
  /\ (out.op = "create" /\ out.status = "created" /\ out.req # None) =>
        /\ out.body[1].language = StoredPaste(out.id).language
        /\ (out.req[1].language = Some("klingon") => out.body[1].language = "text")
        /\ (out.req[1].language = Some("JavaScript")
              => out.body[1].language = "javascript")

\* a paste was stored for a request that named an unsupported language
C31_Witness ==
  /\ out.op = "create" /\ out.status = "created" /\ out.req # None
  /\ out.req[1].language = Some("klingon")
  /\ kv[out.id] # None /\ StoredPaste(out.id).language = "text"

\* C32: the only step that writes a record is the put of a createPaste:
\* every other step, of getPaste, consumePaste, deletePaste or of the view,
\* HEAD, preview, download and delete handlers, leaves each entry as it is or
\* removes it, so a record does not change while it is stored.
C32_NoUpdate ==
  [][\A i \in Ids :
       (kv'[i] # None /\ kv'[i] # kv[i])
         => \E p \in Procs : /\ proc[p].op = "create" /\ proc[p].pc = "put"
                              /\ proc[p].id = i /\ proc'[p].pc = "idle"]_vars

\* a view has read a multi-view paste, which is stored as it was given
C32_Witness ==
  /\ out.op = "view" /\ out.status = "200" /\ out.body # None
  /\ ~out.body[1].oneTimeView
  /\ kv[out.id] # None
  /\ StoredPaste(out.id).content = given[out.body[1].sn][1].content
  /\ StoredPaste(out.id).consumed = FALSE

\* C33: for a paste created with the expiry key k, expiresAt minus createdAt
\* is never more than the seconds of k in the table, and is less by no more
\* than the time that passed during the request.
C33_ExpirySpan ==
  ( /\ out.op = "create" /\ out.status = "created" /\ out.req # None
    /\ out.req[1].expires # None /\ out.req[1].expires[1] \in DOMAIN EXPIRY_OPTIONS )
  => LET span == out.body[1].expiresAt[1] - out.createdAt[1]
         table == EXPIRY_OPTIONS[out.req[1].expires[1]] * TicksPerSec
     IN /\ span <= table
        /\ span >= table - now
        /\ StoredPaste(out.id).expiresAt = out.body[1].expiresAt

\* a paste was created with the key 5m, and time passed between the
\* computation of its expiresAt and its createdAt
C33_Witness ==
  /\ out.op = "create" /\ out.status = "created" /\ out.req # None
  /\ out.req[1].expires = Some("5m")
  /\ out.body[1].expiresAt[1] - out.createdAt[1] < 300 * TicksPerSec
  /\ out.body[1].expiresAt[1] - out.createdAt[1] > 298 * TicksPerSec

\* C34: consumePaste returns the paste only when its kv.delete has
\* completed, so that the record is gone; when its kv.get fails it returns
\* absent, and when its kv.delete fails it returns absent and the record is
\* still stored.
C34_ConsumeAfterDelete ==
  /\ [](out.op = "consume" /\ out.status = "paste" => kv[out.id] = None)
  /\ [][\A p \in Procs :
          (proc[p].op = "consume" /\ proc'[p].pc = "idle")
            => /\ proc[p].pc = "cget" => out'.status = "null"
               /\ (proc[p].pc = "cdel" /\ kv[proc[p].id] # None)
                    => IF out'.status = "paste" THEN kv'[proc[p].id] = None
                       ELSE out'.status = "null" /\ kv' = kv]_vars

\* consumePaste has read a paste that is neither expired nor consumed and
\* returned absent: its kv.delete failed, and the record is still stored
C34_Witness ==
  /\ out.op = "consume" /\ out.status = "null" /\ out.readLive # 0
  /\ kv[out.id] # None /\ StoredPaste(out.id).sn = out.readLive

C36_NoTombstone ==
  /\ \A i \in Ids : kv[i] # None => ~StoredPaste(i).consumed
  /\ \A p \in Procs : proc[p].paste # None => ~proc[p].paste[1].consumed
  /\ (out.body # None => ~out.body[1].consumed)
  /\ (out.op \in {"view", "hdelete"} /\ out.status = "200"
       /\ (out.op = "view" => out.body[1].oneTimeView)
        => kv[out.id] = None)

\* a view has consumed a one-time paste: its record is absent
C36_Witness ==
  /\ out.op = "view" /\ out.status = "200" /\ out.body[1].oneTimeView
  /\ kv[out.id] = None /\ fate[out.body[1].sn] = "consumed"

\* C37: every paste stored for a create request has an expiresAt, which
\* lies at least MIN_EXPIRY seconds after the request.
C37_AlwaysExpires ==
  /\ \A i \in Ids : kv[i] # None => StoredPaste(i).expiresAt # None
  /\ (out.op = "create" /\ out.status = "created" /\ out.req # None) =>
        /\ out.body[1].expiresAt # None
        /\ out.body[1].expiresAt[1] - now >= MIN_EXPIRY * TicksPerSec
        /\ StoredPaste(out.id).expiresAt = out.body[1].expiresAt

\* a paste was created for a request with the raw expiry MIN_EXPIRY
C37_Witness ==
  /\ out.op = "create" /\ out.status = "created" /\ out.req # None
  /\ out.req[1].expires = None /\ out.req[1].expiresIn = Some(MIN_EXPIRY)
  /\ StoredPaste(out.id).expiresAt = Some(now + MIN_EXPIRY * TicksPerSec)

\* C38: an id returned by createPaste, of KVStorage or of MockStorage, is
\* made of MinIdLength to MaxIdLength alphanumeric characters, and
\* sanitizePasteId returns it as it is.
C38_IdsSurvive ==
  out.op = "newid" =>
    /\ WellFormedId(out.raw[1])
    /\ out.body = Some(out.raw[1].txt)

\* C39: given the same calls and the same clock, a KVStorage and a
\* MockStorage accept the same creates and return a paste for the same
\* getPaste and consumePaste calls.
C39_Equivalent ==
  (out.op \in {"create", "get", "consume"} /\ out.twin # "none") =>
    (out.twin = "present" <=> out.status \in {"created", "paste"})

\* C40: the total counter of a kind never lies below the number of track
\* calls of that kind that have completed, and when no track call is in
\* progress it equals that number: no increment is lost.
C40_NoLostUpdate ==
  \A kind \in Kinds :
    LET total == IF kind = "created" THEN "total:shares" ELSE "total:views" IN
      /\ GetCounter(total) >= tracked[kind]
      /\ (\A t \in Trackers : calling[t] = NoCall) => GetCounter(total) = tracked[kind]

====
